---- MODULE Spec2Model ----
(***************************************************************************)
(* go-ingest-service: the in-memory event Store (Add / List under one      *)
(* mutex), the POST /events, GET /events and GET /healthz handlers wrapped *)
(* by instrument (status capture, request counter, latency histogram),     *)
(* GET /metrics and unrouted requests, all below logMiddleware, and main's *)
(* lifecycle (ListenAndServe on a goroutine, wait for a signal,            *)
(* srv.Shutdown with a 10 s context, return).                              *)
(*                                                                         *)
(* Every in-flight request is one goroutine; an action is one step of one  *)
(* goroutine (or of the environment: a client connecting, a client sending *)
(* its request on a connection, the wall clock being set, a signal        *)
(* arriving, the shutdown context's deadline passing, the listener         *)
(* failing). Main's path from <-stop into srv.Shutdown and the server      *)
(* goroutine's path from Serve's return to panic(err) are several steps.   *)
(*                                                                         *)
(* Environment assumptions, stated once:                                   *)
(*  - a SIGINT or SIGTERM for which signal.Notify has not been called      *)
(*    ends the process at once;                                            *)
(*  - sync.Mutex hands the lock to a goroutine that keeps waiting for it   *)
(*    (starvation mode);                                                   *)
(*  - net/http, chi and client_golang behave as documented:                *)
(*    ListenAndServe returns a bind error or a permanent Accept error as   *)
(*    it is, and ErrServerClosed when it finds the server shutting down;   *)
(*    Shutdown marks the server as shutting down, closes the listener,     *)
(*    then waits until no connection is active or its context is done,     *)
(*    closing a connection on which no request has been read once it has   *)
(*    been silent for 5 s; a request read from such a connection before    *)
(*    that is served; a connection Accept has returned is served;          *)
(*    promhttp reads the registered metrics one by one during a scrape;    *)
(*    Recoverer answers a panicking handler with 500;                      *)
(*    Timeout puts a deadline on the request context and, once the chain   *)
(*    below it has returned, calls WriteHeader(504) if the deadline has    *)
(*    passed; only the first WriteHeader of a response is sent;            *)
(*  - the counter s.seq (int64) stays far below 2^63.                      *)
(***************************************************************************)
EXTENDS Integers, Sequences, FiniteSets

\* ---------------------------------------------------------------- bounds
MaxReq == 2        \* requests the clients send in a run
MaxStored == 4     \* stored events in the states ListSpec starts from
MaxLimit == 6      \* largest limit ListSpec passes to List

\* ------------------------------------------------------ program constants
PageSize == 50             \* store.List(50) in the GET /events handler
StatusOK == 200
StatusCreated == 201
StatusBadRequest == 400

VARIABLES
    seq,          \* Store.seq
    events,       \* Store.events
    mu,           \* Store.mu: 0 when unlocked, else the request holding it
    now,          \* the wall clock: the latest reading time.Now() returned
    req,          \* per request goroutine: position and locals
    reqsTotal,    \* counter vector  (route, method, code) -> value
    reqDuration,  \* histogram vector (route, method) -> number of observations
    accessLog,    \* log records written by logMiddleware, (method, path) -> number
    stop,         \* the signal channel of capacity 1: signals buffered in it
    mainPc,       \* main goroutine: "start" (line 87), "wait" (<-stop), "ctx",
                  \*   "closing", "shutdown", "exited"; "killed" by a signal
    srvPc,        \* ListenAndServe goroutine: "starting", "listening", "binderr",
                  \*   "accepterr", "closed", "failed"
    ctxDone,      \* the shutdown context: TRUE once its 10 s deadline has passed
    shutdownErr,  \* what srv.Shutdown returned: "", "nil", "deadline"
    exitCode,     \* -1 while the process runs, else its exit code
    atSignal,     \* history: the requests that were in flight when a signal arrived
    listLimit,    \* ListSpec: the limit of the last direct List call
    listOut,      \* ListSpec: what that call returned
    listSeq       \* ListSpec: s.seq when that call ran (-1: no call yet)

vars == <<seq, events, mu, now, req, reqsTotal, reqDuration, accessLog, stop,
          mainPc, srvPc, ctxDone, shutdownErr, exitCode, atSignal, listLimit, listOut,
          listSeq>>

storeVars == <<seq, events, mu>>
metricVars == <<reqsTotal, reqDuration, accessLog>>
lifeVars == <<stop, mainPc, srvPc, ctxDone, shutdownErr, exitCode, atSignal>>
listVars == <<listLimit, listOut, listSeq>>

Reqs == 1..MaxReq

\* ------------------------------------------------------------- data model
\* type Event struct; ReceivedAt of the zero Event is the zero time.Time,
\* which lies before every clock reading.
ZeroEvent == [ID |-> 0, Type |-> "", Payload |-> "", ReceivedAt |-> -1000]

PostEvents == [method |-> "POST", route |-> "/events"]
GetEvents == [method |-> "GET", route |-> "/events"]
GetHealthz == [method |-> "GET", route |-> "/healthz"]
NoKind == [method |-> "", route |-> ""]
Instrumented == {PostEvents, GetEvents, GetHealthz}

\* r.Handle("/metrics", promhttp.Handler()) is routed without instrument; a
\* request that matches no route is answered by the router's NotFound
\* handler. Both run below the middleware chain, logMiddleware included.
GetMetrics == [method |-> "GET", route |-> "/metrics"]
Unrouted == [method |-> "GET", route |-> "/nope"]
Routed == Instrumented \cup {GetMetrics, Unrouted}

\* Request bodies a client may send to POST /events: ok is FALSE for a body
\* that is not JSON; has lists the members present in the JSON object.
NoBody == [ok |-> FALSE, has |-> {}, id |-> 0, type |-> "", payload |-> "", received_at |-> 0]
Bodies ==
    { NoBody,
      [ok |-> TRUE, has |-> {"payload"}, id |-> 0, type |-> "", payload |-> "x", received_at |-> 0],
      [ok |-> TRUE, has |-> {"type", "payload"}, id |-> 0, type |-> "", payload |-> "x", received_at |-> 0],
      [ok |-> TRUE, has |-> {"type", "payload"}, id |-> 0, type |-> "signup", payload |-> "{user_id:123}", received_at |-> 0],
      [ok |-> TRUE, has |-> {"id", "type", "payload", "received_at"}, id |-> -5, type |-> "click", payload |-> "x", received_at |-> -2] }

\* json.NewDecoder(r.Body).Decode(&in): a member that is absent leaves the
\* field of the zero Event untouched.
Decode(b) ==
    IF ~b.ok THEN [err |-> TRUE, in |-> ZeroEvent]
    ELSE [err |-> FALSE,
          in |-> [ID |-> IF "id" \in b.has THEN b.id ELSE ZeroEvent.ID,
                  Type |-> IF "type" \in b.has THEN b.type ELSE ZeroEvent.Type,
                  Payload |-> IF "payload" \in b.has THEN b.payload ELSE ZeroEvent.Payload,
                  ReceivedAt |-> IF "received_at" \in b.has THEN b.received_at
                                 ELSE ZeroEvent.ReceivedAt]]

\* json.NewEncoder(w).Encode(e): the Event under its json member names.
Encode(e) == [id |-> e.ID, type |-> e.Type, payload |-> e.Payload, received_at |-> e.ReceivedAt]
EncodeList(l) == [i \in 1..Len(l) |-> Encode(l[i])]

\* http.StatusText
StatusText(c) ==
    CASE c = StatusOK -> "OK"
      [] c = StatusCreated -> "Created"
      [] c = StatusBadRequest -> "Bad Request"
      [] OTHER -> ""
StatusTexts == {StatusText(c) : c \in {StatusOK, StatusCreated, StatusBadRequest}}

\* The POST handler's test: err != nil || in.Type == ""
RejectsErrOnly(d) == d.err
Rejects(d) == d.err \/ d.in.Type = ""

\* ------------------------------------------------------------ Store.List
\* The loop of List: i runs from len(s.events)-1 down (0-based), appending
\* s.events[i] while i >= 0 && len(out) < limit.
RECURSIVE ListLoop(_, _, _, _)
ListLoop(evs, i, limit, out) ==
    IF i >= 0 /\ Len(out) < limit
    THEN ListLoop(evs, i - 1, limit, Append(out, evs[i + 1]))
    ELSE out

ClampStrictlyNegative(limit, n) == IF limit < 0 \/ limit > n THEN n ELSE limit
\* if limit <= 0 || limit > len(s.events) { limit = len(s.events) }
Clamp(limit, n) == IF limit <= 0 \/ limit > n THEN n ELSE limit

ListOldestFirst(evs, limit) == SubSeq(evs, 1, Clamp(limit, Len(evs)))
List(evs, limit) == ListLoop(evs, Len(evs) - 1, Clamp(limit, Len(evs)), <<>>)

\* A List that removes from the store the events it returns.
StoreAfterListDrained(evs, limit) ==
    SubSeq(evs, 1, Len(evs) - Clamp(limit, Len(evs)))

\* s.events after List(limit): List reads s.events and appends to its own
\* out; it assigns neither s.events nor s.seq.
StoreAfterList(evs, limit) == evs

\* ------------------------------------------------------------------ Init
IdleReq == [pc |-> "idle", kind |-> NoKind, body |-> NoBody, in |-> ZeroEvent,
            e |-> ZeroEvent, created |-> ZeroEvent, out |-> <<>>,
            code |-> 0, sent |-> 0, resp |-> <<>>, late |-> FALSE,
            first |-> 0]

ZeroCounters == [k \in Instrumented |-> [t \in StatusTexts |-> 0]]
ZeroByKind == [k \in Instrumented |-> 0]
ZeroLog == [k \in Routed |-> 0]

Init ==
    /\ seq = 0 /\ events = <<>> /\ mu = 0
    /\ now = 0
    /\ req = [r \in Reqs |-> IdleReq]
    /\ reqsTotal = ZeroCounters
    /\ reqDuration = ZeroByKind
    /\ accessLog = ZeroLog
    /\ stop = 0 /\ mainPc = "start" /\ srvPc = "starting"
    /\ ctxDone = FALSE /\ shutdownErr = "" /\ exitCode = -1 /\ atSignal = {}
    /\ listLimit = 0 /\ listOut = <<>> /\ listSeq = -1

\* ------------------------------------------------------------- Store.Add
\* s.mu.Lock() returns only when no goroutine holds the mutex.
MuFreeNoMutex == TRUE
MuFree == mu = 0

\* defer s.mu.Unlock(): the mutex, held by m, is free once Add or List has
\* returned.
UnlockForgotten(m) == m
Unlock(m) == 0

\* What time.Now().UTC() may return. UTC() drops the monotonic reading, so
\* what is stored is the wall clock, which moves forward and may be set
\* back by any amount. Readings are only ever compared and copied, so one
\* instant stands for each place a new reading can take among the readings
\* stored so far: a stored reading itself, or the instant midway between
\* two neighbouring ones, the first of all instants (0) and the last
\* (ClockTop) included. With ClockTop = 2^MaxStored the instants midway are
\* distinct from their neighbours for as many events as a store ever holds
\* here, so every order of the stored readings, ties included, occurs.
ClockTop == 2 ^ MaxStored
StoredReadings == {events[i].ReceivedAt : i \in 1..Len(events)}
ClockMarks == StoredReadings \cup {0, ClockTop}
ClockNeighbours ==
    {p \in ClockMarks \X ClockMarks :
        /\ p[1] < p[2]
        /\ \A x \in ClockMarks : ~(p[1] < x /\ x < p[2])}
ClockReadings ==
    StoredReadings \cup {(p[1] + p[2]) \div 2 : p \in ClockNeighbours}

\* e.ID = s.seq; e.ReceivedAt = time.Now().UTC()
StampKeepClientID(e, s, t) ==
    [e EXCEPT !.ID = IF e.ID # 0 THEN e.ID ELSE s, !.ReceivedAt = t]
Stamp(e, s, t) == [e EXCEPT !.ID = s, !.ReceivedAt = t]

InFlightPcs == {"handler", "gather", "lock", "add1", "add2", "list", "respond",
                "inc", "observe", "log", "logged"}
InFlight == {r \in Reqs : req[r].pc \in InFlightPcs}

\* The connections srv.Shutdown waits for: those serving a request and
\* those accepted on which no request has been read yet (StateNew).
Active == {r \in Reqs : req[r].pc \in InFlightPcs \cup {"conn"}}

\* ------------------------------------------------------ request pipeline
\* The listener accepts while ListenAndServe is serving.
AcceptingAlways == TRUE
Accepting == srvPc = "listening"

\* Serve's Accept returns a client's connection; its goroutine starts and
\* waits for the request. Connections are numbered in the order accepted.
Accept(r) ==
    /\ exitCode = -1
    /\ Accepting
    /\ req[r].pc = "idle"
    /\ IF r = 1 THEN TRUE ELSE req[r - 1].pc # "idle"
    /\ req' = [req EXCEPT ![r].pc = "conn"]
    /\ UNCHANGED <<storeVars, now, metricVars, lifeVars, listVars>>

\* The request is read from an accepted connection, whether or not
\* Shutdown has begun since, and runs through the middleware chain to its
\* handler; for an instrumented route instrument sets up
\* sw := &statusWriter{code: 200}.
Arrive(r, k, b) ==
    /\ exitCode = -1
    /\ req[r].pc = "conn"
    /\ req' = [req EXCEPT ![r] = [IdleReq EXCEPT !.pc = "handler", !.kind = k,
                                                 !.body = b, !.code = StatusOK]]
    /\ UNCHANGED <<storeVars, now, metricVars, lifeVars, listVars>>

\* srv.Shutdown, polling, closes a connection on which no request has been
\* read for 5 seconds as if it were idle.
CloseNewConn(r) ==
    /\ exitCode = -1
    /\ mainPc = "shutdown"
    /\ req[r].pc = "conn"
    /\ req' = [req EXCEPT ![r].pc = "dropped"]
    /\ UNCHANGED <<storeVars, now, metricVars, lifeVars, listVars>>

\* http.ResponseWriter.WriteHeader: the first status written is the one
\* sent; a later call is superfluous and changes nothing (sent = 0: none yet).
WriteHeaderOnce(sent, code) == IF sent = 0 THEN code ELSE sent

\* middleware.Timeout's deferred function, run when the chain below it
\* returns or unwinds: if ctx.Err() is DeadlineExceeded, w.WriteHeader(504).
TimeoutDefer(late, sent) == IF late THEN WriteHeaderOnce(sent, 504) ELSE sent

\* The deadline of the context middleware.Timeout gave the request passes
\* while the chain below it is running. No handler reads the context.
CtxTimeout(r) ==
    /\ req[r].pc \in InFlightPcs
    /\ ~req[r].late
    /\ req' = [req EXCEPT ![r].late = TRUE]
    /\ UNCHANGED <<storeVars, now, metricVars, lifeVars, listVars>>

\* h(sw, r) panics: the panic unwinds through instrument and logMiddleware
\* (neither defers anything) and Timeout's deferred function to Recoverer,
\* which answers 500 with no body.
HandlerFault(r) ==
    /\ req[r].pc = "handler"
    /\ req' = [req EXCEPT ![r].pc = "done",
                          ![r].sent = WriteHeaderOnce(
                                          TimeoutDefer(req[r].late, req[r].sent), 500),
                          ![r].resp = <<>>]
    /\ UNCHANGED <<storeVars, now, metricVars, lifeVars, listVars>>

\* A health handler that would take the store lock before answering.
HealthzWaitsForStore == mu = 0

\* What the health handler waits for before it answers: nothing. It makes
\* no call on the store and takes no lock.
HealthzMayRun == TRUE

\* GET /healthz: w.WriteHeader(http.StatusOK); w.Write("ok")
Healthz(r) ==
    /\ req[r].pc = "handler" /\ req[r].kind = GetHealthz
    /\ HealthzMayRun
    /\ req' = [req EXCEPT ![r].pc = "inc", ![r].code = StatusOK,
                          ![r].sent = StatusOK, ![r].first = StatusOK,
                          ![r].resp = <<"ok">>]
    /\ UNCHANGED <<storeVars, now, metricVars, lifeVars, listVars>>

\* POST /events: decode; on error or empty type http.Error(400) and return,
\* else call store.Add(in).
PostDecode(r) ==
    /\ req[r].pc = "handler" /\ req[r].kind = PostEvents
    /\ LET d == Decode(req[r].body) IN
       IF Rejects(d)
       THEN req' = [req EXCEPT ![r].pc = "inc", ![r].code = StatusBadRequest,
                               ![r].sent = StatusBadRequest,
                               ![r].first = StatusBadRequest,
                               ![r].resp = <<"invalid json (need type, payload)">>]
       ELSE req' = [req EXCEPT ![r].pc = "lock", ![r].in = d.in, ![r].e = d.in]
    /\ UNCHANGED <<storeVars, now, metricVars, lifeVars, listVars>>

\* Add: s.mu.Lock()
AddLock(r) ==
    /\ req[r].pc = "lock"
    /\ MuFree
    /\ mu' = r
    /\ req' = [req EXCEPT ![r].pc = "add1"]
    /\ UNCHANGED <<seq, events, now, metricVars, lifeVars, listVars>>

\* Add: s.seq++
AddInc(r) ==
    /\ req[r].pc = "add1"
    /\ seq' = seq + 1
    /\ req' = [req EXCEPT ![r].pc = "add2"]
    /\ UNCHANGED <<events, mu, now, metricVars, lifeVars, listVars>>

\* Add: e.ID = s.seq; e.ReceivedAt = time.Now().UTC();
\* s.events = append(s.events, e); return e (the deferred Unlock runs).
\* time.Now().UTC() reads t off the wall clock.
AddAppend(r) ==
    /\ req[r].pc = "add2"
    /\ \E t \in ClockReadings :
         LET e == Stamp(req[r].e, seq, t) IN
         /\ now' = t
         /\ events' = Append(events, e)
         /\ req' = [req EXCEPT ![r].pc = "respond", ![r].e = e, ![r].created = e]
    /\ mu' = Unlock(mu)
    /\ UNCHANGED <<seq, metricVars, lifeVars, listVars>>

\* POST /events after Add: WriteHeader(201); Encode(created)
PostRespond(r) ==
    /\ req[r].pc = "respond" /\ req[r].kind = PostEvents
    /\ req' = [req EXCEPT ![r].pc = "inc", ![r].code = StatusCreated,
                          ![r].sent = StatusCreated,
                          ![r].first = StatusCreated,
                          ![r].resp = <<Encode(req[r].created)>>]
    /\ UNCHANGED <<storeVars, now, metricVars, lifeVars, listVars>>

\* GET /events: store.List(50) begins with s.mu.Lock()
ListLock(r) ==
    /\ req[r].pc = "handler" /\ req[r].kind = GetEvents
    /\ MuFree
    /\ mu' = r
    /\ req' = [req EXCEPT ![r].pc = "list"]
    /\ UNCHANGED <<seq, events, now, metricVars, lifeVars, listVars>>

\* List: the copy-out loop; return out (the deferred Unlock runs)
ListBody(r) ==
    /\ req[r].pc = "list"
    /\ mu' = Unlock(mu)
    /\ req' = [req EXCEPT ![r].pc = "respond", ![r].out = List(events, PageSize)]
    /\ events' = StoreAfterList(events, PageSize)
    /\ UNCHANGED <<seq, now, metricVars, lifeVars, listVars>>

\* GET /events after List: Encode(list); no WriteHeader call, so the first
\* Write sends 200 and sw.code keeps its initial value.
GetRespond(r) ==
    /\ req[r].pc = "respond" /\ req[r].kind = GetEvents
    /\ req' = [req EXCEPT ![r].pc = "inc", ![r].sent = StatusOK,
                          ![r].resp = EncodeList(req[r].out)]
    /\ UNCHANGED <<storeVars, now, metricVars, lifeVars, listVars>>

\* An instrument that counts only the responses that are not errors.
IncUnlessError(r) ==
    /\ req[r].pc = "inc"
    /\ reqsTotal' = IF req[r].code >= 400 THEN reqsTotal
                    ELSE [reqsTotal EXCEPT ![req[r].kind][StatusText(req[r].code)] = @ + 1]
    /\ req' = [req EXCEPT ![r].pc = "observe"]
    /\ UNCHANGED <<storeVars, now, reqDuration, accessLog, lifeVars, listVars>>

\* instrument: reqsTotal.WithLabelValues(route, method, StatusText(sw.code)).Inc()
Inc(r) ==
    /\ req[r].pc = "inc"
    /\ reqsTotal' = [reqsTotal EXCEPT ![req[r].kind][StatusText(req[r].code)] = @ + 1]
    /\ req' = [req EXCEPT ![r].pc = "observe"]
    /\ UNCHANGED <<storeVars, now, reqDuration, accessLog, lifeVars, listVars>>

\* instrument: reqDuration.WithLabelValues(route, method).Observe(...);
\* instrument returns to logMiddleware.
Observe(r) ==
    /\ req[r].pc = "observe"
    /\ reqDuration' = [reqDuration EXCEPT ![req[r].kind] = @ + 1]
    /\ req' = [req EXCEPT ![r].pc = "log"]
    /\ UNCHANGED <<storeVars, now, reqsTotal, accessLog, lifeVars, listVars>>

\* GET /metrics: promhttp.Handler() starts gathering. The gatherer reads
\* the registered metrics one by one, in no fixed order, while the other
\* requests go on; resp holds the values at the start of the scrape.
MetricsGather(r) ==
    /\ req[r].pc = "handler" /\ req[r].kind = GetMetrics
    /\ req' = [req EXCEPT ![r].pc = "gather", ![r].resp = <<reqsTotal, reqDuration>>]
    /\ UNCHANGED <<storeVars, now, metricVars, lifeVars, listVars>>

\* The counters, and the histograms, that have moved since the scrape began.
MovedCounters(lo) ==
    {e \in Instrumented \X StatusTexts : reqsTotal[e[1]][e[2]] > lo[e[1]][e[2]]}
MovedHistograms(lo) == {k \in Instrumented : reqDuration[k] > lo[k]}

\* The scrape ends and the exposition is written with status 200. Each
\* metric was read at some instant of the scrape, so each value written is
\* one the metric had between the start of the scrape and now; a metric
\* only moves up, by one at a time.
Metrics(r) ==
    /\ req[r].pc = "gather"
    /\ LET lo == req[r].resp IN
       \E dc \in [MovedCounters(lo[1]) -> 0..MaxReq],
          dh \in [MovedHistograms(lo[2]) -> 0..MaxReq] :
           /\ \A e \in DOMAIN dc : lo[1][e[1]][e[2]] + dc[e] <= reqsTotal[e[1]][e[2]]
           /\ \A k \in DOMAIN dh : lo[2][k] + dh[k] <= reqDuration[k]
           /\ req' = [req EXCEPT
                  ![r].pc = "log",
                  ![r].sent = StatusOK,
                  ![r].resp =
                      << [k \in Instrumented |-> [t \in StatusTexts |->
                             IF <<k, t>> \in DOMAIN dc THEN lo[1][k][t] + dc[<<k, t>>]
                             ELSE lo[1][k][t]]],
                         [k \in Instrumented |->
                             IF k \in DOMAIN dh THEN lo[2][k] + dh[k] ELSE lo[2][k]] >>]
    /\ UNCHANGED <<storeVars, now, metricVars, lifeVars, listVars>>

\* A request that matches no route: the router's NotFound handler.
NotFound(r) ==
    /\ req[r].pc = "handler" /\ req[r].kind = Unrouted
    /\ req' = [req EXCEPT ![r].pc = "log", ![r].sent = 404,
                          ![r].resp = <<"404 page not found">>]
    /\ UNCHANGED <<storeVars, now, metricVars, lifeVars, listVars>>

\* logMiddleware, whose next.ServeHTTP has returned, writes its record:
\* log.Info().Str("method", ...).Str("path", ...).Dur(...).Msg("request").
Log(r) ==
    /\ req[r].pc = "log"
    /\ accessLog' = [accessLog EXCEPT ![req[r].kind] = @ + 1]
    /\ req' = [req EXCEPT ![r].pc = "logged"]
    /\ UNCHANGED <<storeVars, now, reqsTotal, reqDuration, lifeVars, listVars>>

\* logMiddleware returns; Timeout's deferred function runs, and the chain
\* returns to the server, which sends a response on which no status has
\* been written as 200: the response is complete.
ChainReturn(r) ==
    /\ req[r].pc = "logged"
    /\ req' = [req EXCEPT ![r].pc = "done",
                          ![r].sent = WriteHeaderOnce(
                                          TimeoutDefer(req[r].late, req[r].sent),
                                          StatusOK)]
    /\ UNCHANGED <<storeVars, now, metricVars, lifeVars, listVars>>

\* ------------------------------------------------------------- lifecycle
\* srv.inShutdown, which Shutdown sets first of all: main is inside
\* srv.Shutdown, or past it.
ShuttingDown == mainPc \in {"closing", "shutdown", "exited"}

\* go func() { srv.ListenAndServe() }: net.Listen binds the listener and
\* Serve registers it (trackListener), which succeeds only while the
\* server is not shutting down; Serve then accepts.
ListenOK ==
    /\ exitCode = -1
    /\ srvPc = "starting" /\ ~ShuttingDown
    /\ srvPc' = "listening"
    /\ UNCHANGED <<storeVars, now, req, metricVars, stop, mainPc, ctxDone,
                   shutdownErr, exitCode, atSignal, listVars>>

\* ListenAndServe returns an error other than ErrServerClosed to the
\* goroutine: net.Listen fails (ListenAndServe tests shuttingDown before
\* it calls net.Listen, so Shutdown may have begun meanwhile), or Accept
\* fails for good and Serve, finding the server not shutting down, closes
\* the listener and returns the error. The requests being served go on.
ServeError ==
    /\ exitCode = -1
    /\ \/ srvPc = "starting" /\ srvPc' = "binderr"
       \/ srvPc = "listening" /\ ~ShuttingDown /\ srvPc' = "accepterr"
    /\ UNCHANGED <<storeVars, now, req, metricVars, stop, mainPc, ctxDone,
                   shutdownErr, exitCode, atSignal, listVars>>

\* The goroutine, holding an error other than nil and ErrServerClosed,
\* runs panic(err): the process ends with exit code 2, and with it every
\* connection, wherever main is by then.
ListenFail ==
    /\ exitCode = -1
    /\ srvPc \in {"binderr", "accepterr"}
    /\ srvPc' = "failed"
    /\ exitCode' = 2
    /\ req' = [r \in Reqs |-> IF r \in Active THEN [req[r] EXCEPT !.pc = "killed"]
                              ELSE req[r]]
    /\ UNCHANGED <<storeVars, now, metricVars, stop, mainPc, ctxDone,
                   shutdownErr, atSignal, listVars>>

\* ListenAndServe returns ErrServerClosed and the goroutine ends: the
\* server was shutting down when ListenAndServe tested it or when Serve
\* registered the listener, or Accept failed while the server was shutting
\* down and the listener not yet closed by Shutdown.
ListenClosed ==
    /\ exitCode = -1
    /\ \/ srvPc = "starting" /\ ShuttingDown
       \/ srvPc = "listening" /\ mainPc = "closing"
    /\ srvPc' = "closed"
    /\ UNCHANGED <<storeVars, now, req, metricVars, stop, mainPc, ctxDone,
                   shutdownErr, exitCode, atSignal, listVars>>

\* main, having started the server goroutine at 81: make(chan os.Signal, 1)
\* and signal.Notify(stop, os.Interrupt, syscall.SIGTERM); main then waits
\* at <-stop.
Notify ==
    /\ exitCode = -1
    /\ mainPc = "start"
    /\ mainPc' = "wait"
    /\ UNCHANGED <<storeVars, now, req, metricVars, stop, srvPc, ctxDone,
                   shutdownErr, exitCode, atSignal, listVars>>

\* SIGINT (2) and SIGTERM (15).
Signals == {2, 15}

\* os.Interrupt or SIGTERM arrives before signal.Notify has run: the
\* signal has its default effect and the process dies of it at once (the
\* status a shell reports is 128 + the signal's number), with the server
\* goroutine, which has been running since line 81, and every connection.
SignalDefault ==
    /\ exitCode = -1
    /\ mainPc = "start"
    /\ mainPc' = "killed"
    /\ \E sig \in Signals : exitCode' = 128 + sig
    /\ atSignal' = atSignal \cup InFlight
    /\ req' = [r \in Reqs |-> IF r \in Active THEN [req[r] EXCEPT !.pc = "killed"]
                              ELSE req[r]]
    /\ UNCHANGED <<storeVars, now, metricVars, stop, srvPc, ctxDone, shutdownErr,
                   listVars>>

\* os.Interrupt or SIGTERM arrives once signal.Notify has run: the signal
\* is sent to stop without blocking, so it is buffered when the buffer of
\* 1 is empty and dropped when it is full. That holds at any time until
\* the process ends; main receives from stop only once.
Signal ==
    /\ exitCode = -1
    /\ mainPc \notin {"start", "killed"}
    /\ stop' = 1
    /\ atSignal' = atSignal \cup InFlight
    /\ UNCHANGED <<storeVars, now, req, metricVars, mainPc, srvPc, ctxDone,
                   shutdownErr, exitCode, listVars>>

\* main: <-stop returns, and context.WithTimeout(10s) starts the timer of
\* the shutdown context (ctx and cancel are locals of main). The server
\* goroutine and the listener are as they were.
MainSignal ==
    /\ exitCode = -1
    /\ mainPc = "wait" /\ stop = 1
    /\ stop' = 0
    /\ mainPc' = "ctx"
    /\ UNCHANGED <<storeVars, now, req, metricVars, srvPc, ctxDone, shutdownErr,
                   exitCode, atSignal, listVars>>

\* main calls srv.Shutdown(ctx), which begins with srv.inShutdown.Store(true).
ShutdownBegin ==
    /\ exitCode = -1
    /\ mainPc = "ctx"
    /\ mainPc' = "closing"
    /\ UNCHANGED <<storeVars, now, req, metricVars, stop, srvPc, ctxDone,
                   shutdownErr, exitCode, atSignal, listVars>>

\* srv.Shutdown: closeListenersLocked() closes the listener Serve
\* registered; Serve's Accept fails, Serve finds the server shutting down
\* and returns ErrServerClosed. Shutdown starts waiting for the active
\* connections.
MainShutdown ==
    /\ exitCode = -1
    /\ mainPc = "closing"
    /\ mainPc' = "shutdown"
    /\ srvPc' = IF srvPc = "listening" THEN "closed" ELSE srvPc
    /\ UNCHANGED <<storeVars, now, req, metricVars, stop, ctxDone, shutdownErr,
                   exitCode, atSignal, listVars>>

\* The 10 s deadline of the shutdown context, counted from line 90, passes.
CtxDeadline ==
    /\ exitCode = -1
    /\ mainPc \in {"ctx", "closing", "shutdown"} /\ ~ctxDone
    /\ ctxDone' = TRUE
    /\ UNCHANGED <<storeVars, now, req, metricVars, stop, mainPc, srvPc,
                   shutdownErr, exitCode, atSignal, listVars>>

\* srv.Shutdown returns nil once no connection is active, or ctx.Err() once
\* the context is done.
ShutdownNoWait == {"nil", "deadline"}
ShutdownNoDeadline == IF Active = {} THEN {"nil"} ELSE {}
ShutdownResults ==
    (IF Active = {} THEN {"nil"} ELSE {}) \cup (IF ctxDone THEN {"deadline"} ELSE {})

\* main: _ = srv.Shutdown(ctx) returns, main returns and the process exits
\* with code 0; the goroutines still serving a request end with it.
ShutdownReturn ==
    /\ exitCode = -1
    /\ mainPc = "shutdown"
    /\ \E err \in ShutdownResults : shutdownErr' = err
    /\ mainPc' = "exited"
    /\ exitCode' = 0
    /\ req' = [r \in Reqs |-> IF r \in Active THEN [req[r] EXCEPT !.pc = "killed"]
                              ELSE req[r]]
    /\ UNCHANGED <<storeVars, now, metricVars, stop, srvPc, ctxDone, atSignal, listVars>>

\* The lifecycle state of section 4.4, read off the two goroutines of main:
\* ShuttingDown from main's receipt of the signal; until then Running once
\* the listener has been bound.
Phase ==
    IF mainPc = "killed" THEN "Killed"
    ELSE IF srvPc = "failed" THEN "Aborted"
    ELSE IF mainPc = "exited" THEN "Stopped"
    ELSE IF mainPc \in {"ctx", "closing", "shutdown"} THEN "ShuttingDown"
    ELSE IF srvPc \in {"listening", "accepterr"} THEN "Running"
    ELSE "Starting"

\* --------------------------------------------------------- specification
\* One step of the goroutine serving a POST /events.
PostStep(r) ==
    \/ HandlerFault(r)
    \/ PostDecode(r)
    \/ AddLock(r)
    \/ AddInc(r)
    \/ AddAppend(r)
    \/ PostRespond(r)
    \/ Inc(r)
    \/ Observe(r)
    \/ Log(r)
    \/ ChainReturn(r)

\* One step of the goroutine serving a request to /events.
StoreStep(r) ==
    \/ PostStep(r)
    \/ ListLock(r)
    \/ ListBody(r)
    \/ GetRespond(r)

\* One step of the goroutine serving any request.
Step(r) ==
    \/ StoreStep(r)
    \/ Healthz(r)
    \/ MetricsGather(r)
    \/ Metrics(r)
    \/ NotFound(r)

\* The steps of main and of the ListenAndServe goroutine, of the signal
\* and of the shutdown context's timer.
LifeStep ==
    \/ ListenOK
    \/ ServeError
    \/ ListenFail
    \/ ListenClosed
    \/ Notify
    \/ SignalDefault
    \/ Signal
    \/ MainSignal
    \/ ShutdownBegin
    \/ MainShutdown
    \/ CtxDeadline
    \/ ShutdownReturn

\* Every step of the service, the POST bodies being drawn from B.
NextWith(B) ==
    \/ \E r \in Reqs : Accept(r)
    \/ \E r \in Reqs, k \in Routed \ {PostEvents} : Arrive(r, k, NoBody)
    \/ \E r \in Reqs, b \in B : Arrive(r, PostEvents, b)
    \/ \E r \in Reqs : CloseNewConn(r)
    \/ \E r \in Reqs : Step(r)
    \/ LifeStep

Next == NextWith(Bodies)

Spec == Init /\ [][Next]_vars

\* The service while it runs: the listener is bound, no signal arrives and
\* Accept does not fail. Every route, every body.
ServeNext ==
    \/ ListenOK
    \/ \E r \in Reqs : Accept(r)
    \/ \E r \in Reqs, k \in Routed \ {PostEvents} : Arrive(r, k, NoBody)
    \/ \E r \in Reqs, b \in Bodies : Arrive(r, PostEvents, b)
    \/ \E r \in Reqs : Step(r)

ServeSpec == Init /\ [][ServeNext]_vars

\* The lifecycle. srv.Shutdown and the process exit treat every connection
\* alike, whatever request it carries, so the requests here are the ones
\* with the longest chain, POST /events with a body the handler accepts.
LiveBodies == {b \in Bodies : "id" \in b.has}
LiveNext ==
    \/ \E r \in Reqs : Accept(r)
    \/ \E r \in Reqs, b \in LiveBodies : Arrive(r, PostEvents, b)
    \/ \E r \in Reqs : CloseNewConn(r)
    \/ \E r \in Reqs : PostStep(r)
    \/ LifeStep

LifeSpec == Init /\ [][LiveNext]_vars

\* Fairness the runtime gives the shutdown path: the main goroutine is
\* scheduled, and the timer of context.WithTimeout fires. No fairness is
\* assumed of a request: a handler may take arbitrarily long.
LiveSpec ==
    /\ Init /\ [][LiveNext]_vars
    /\ WF_vars(Notify) /\ WF_vars(MainSignal) /\ WF_vars(ShutdownBegin) /\ WF_vars(MainShutdown)
    /\ WF_vars(CtxDeadline) /\ WF_vars(ShutdownReturn)

\* The service with requests whose context deadline may pass.
TimeoutNext == NextWith(LiveBodies) \/ \E r \in Reqs : CtxTimeout(r)
TimeoutSpec == Init /\ [][TimeoutNext]_vars

\* ------------------------------------ the Store under concurrent callers
\* Goroutines that call store.Add and store.List again and again, as the
\* handlers of successive requests do (lines 66 and 74). The number of Add
\* calls is capped, the number of List calls is not.
CallAdd(r, b) ==
    /\ req[r].pc = "idle"
    /\ seq + Cardinality({q \in Reqs : req[q].pc \in {"lock", "add1"}}) < MaxReq
    /\ req' = [req EXCEPT ![r] = [IdleReq EXCEPT !.pc = "lock", !.kind = PostEvents,
                                                 !.body = b,
                                                 !.in = Decode(b).in,
                                                 !.e = Decode(b).in]]
    /\ UNCHANGED <<storeVars, now, metricVars, lifeVars, listVars>>

CallList(r) ==
    /\ req[r].pc = "idle"
    /\ req' = [req EXCEPT ![r] = [IdleReq EXCEPT !.pc = "handler", !.kind = GetEvents]]
    /\ UNCHANGED <<storeVars, now, metricVars, lifeVars, listVars>>

\* The call has returned to its caller; the goroutine is free to call again.
CallReturn(r) ==
    /\ req[r].pc = "respond"
    /\ req' = [req EXCEPT ![r] = IdleReq]
    /\ UNCHANGED <<storeVars, now, metricVars, lifeVars, listVars>>

\* One step of a goroutine inside the critical section of Add or List.
CriticalStep(r) == AddInc(r) \/ AddAppend(r) \/ ListBody(r)

LockNext ==
    \/ \E r \in Reqs, b \in LiveBodies : CallAdd(r, b)
    \/ \E r \in Reqs : CallList(r)
    \/ \E r \in Reqs : AddLock(r) \/ ListLock(r)
    \/ \E r \in Reqs : CriticalStep(r)
    \/ \E r \in Reqs : CallReturn(r)

\* Fairness: a goroutine that holds the lock is runnable and is scheduled
\* (weak fairness of its steps); a goroutine blocked in s.mu.Lock() gets the
\* lock if the lock is free again and again (strong fairness of the
\* acquisition), which is what sync.Mutex provides: a waiter that has failed
\* to acquire for 1 ms puts the mutex in starvation mode, in which Unlock
\* hands the mutex to the waiter at the front of the queue. Nothing is
\* assumed of the callers: a goroutine may call again or not.
LockSpec ==
    /\ Init /\ [][LockNext]_vars
    /\ \A r \in Reqs : WF_vars(CriticalStep(r))
    /\ \A r \in Reqs : SF_vars(AddLock(r)) /\ SF_vars(ListLock(r))

\* ------------------------------- instrument around an arbitrary handler
\* instrument(route, h) and statusWriter serve any http.HandlerFunc. Here h
\* is a handler that calls w.WriteHeader any number of times, with any of
\* the status codes the service uses, and then returns.
StatusCodes == {StatusOK, StatusCreated, StatusBadRequest}

\* statusWriter.WriteHeader: w.code = code, on every call.
SwCode(old, code) == code

\* h calls w.WriteHeader(c) on the statusWriter: w.code = code, then
\* w.ResponseWriter.WriteHeader(code). first remembers the code of the
\* first such call of the request (0: none yet).
HandlerWriteHeader(r, c) ==
    /\ req[r].pc = "handler"
    /\ req' = [req EXCEPT ![r].code = SwCode(req[r].code, c),
                          ![r].sent = WriteHeaderOnce(req[r].sent, c),
                          ![r].first = IF req[r].first = 0 THEN c ELSE @]
    /\ UNCHANGED <<storeVars, now, metricVars, lifeVars, listVars>>

\* h returns to instrument; nothing is written on its return.
HandlerReturn(r) ==
    /\ req[r].pc = "handler"
    /\ req' = [req EXCEPT ![r].pc = "inc"]
    /\ UNCHANGED <<storeVars, now, metricVars, lifeVars, listVars>>

WriterNext ==
    \/ ListenOK
    \/ \E r \in Reqs : Accept(r)
    \/ \E r \in Reqs, k \in Instrumented : Arrive(r, k, NoBody)
    \/ \E r \in Reqs, c \in StatusCodes : HandlerWriteHeader(r, c)
    \/ \E r \in Reqs : HandlerReturn(r) \/ Inc(r) \/ Observe(r)
    \/ \E r \in Reqs : Log(r) \/ ChainReturn(r)

WriterSpec == Init /\ [][WriterNext]_vars

\* ------------------------------------------- the Store called on its own
\* A single caller applying Add and List to a Store, starting from the
\* empty store or from the store that 60 Add calls leave behind.
Filled(n) ==
    [i \in 1..n |-> Stamp([ZeroEvent EXCEPT !.Type = "signup", !.Payload = "x"], i, 0)]

ListInit ==
    /\ \E n \in {0, 60} : seq = n /\ events = Filled(n)
    /\ mu = 0
    /\ now = 0
    /\ req = [r \in Reqs |-> IdleReq]
    /\ reqsTotal = ZeroCounters
    /\ reqDuration = ZeroByKind
    /\ accessLog = ZeroLog
    /\ stop = 0 /\ mainPc = "start" /\ srvPc = "starting"
    /\ ctxDone = FALSE /\ shutdownErr = "" /\ exitCode = -1 /\ atSignal = {}
    /\ listLimit = 0 /\ listOut = <<>> /\ listSeq = -1

Limits == (-1..MaxLimit) \cup {PageSize}

\* store.Add(in), run to completion by the only caller.
DirectAdd(in) ==
    /\ mu = 0
    /\ seq < MaxStored
    /\ \E t \in ClockReadings :
         /\ now' = t
         /\ events' = Append(events, Stamp(in, seq + 1, t))
    /\ seq' = seq + 1
    /\ UNCHANGED <<mu, req, metricVars, lifeVars, listVars>>

\* store.List(limit), run to completion by the only caller.
DirectList(limit) ==
    /\ mu = 0
    /\ listLimit' = limit
    /\ listOut' = List(events, limit)
    /\ listSeq' = seq
    /\ events' = StoreAfterList(events, limit)
    /\ UNCHANGED <<seq, mu, now, req, metricVars, lifeVars>>

\* List reads no field of an event, so one accepted body is added throughout.
ListNext ==
    \/ \E b \in LiveBodies : ~Rejects(Decode(b)) /\ DirectAdd(Decode(b).in)
    \/ \E n \in Limits : DirectList(n)

ListSpec == ListInit /\ [][ListNext]_vars

\* ================================================================ claims
Min(a, b) == IF a <= b THEN a ELSE b

\* The requests whose Add call has returned, and the identifiers returned.
Returned == {r \in Reqs : req[r].created # ZeroEvent}
ReturnedIds == {req[r].created.ID : r \in Returned}

\* C1: whatever the interleaving of the concurrent Add calls, the
\* identifiers returned so far are pairwise distinct and are exactly 1..N,
\* N being the number of calls that have returned.
C1_UniqueGapFreeIds ==
    /\ \A r1, r2 \in Returned : r1 # r2 => req[r1].created.ID # req[r2].created.ID
    /\ ReturnedIds = 1..Cardinality(Returned)

\* Two Add calls raced: the request that arrived second got the lock first.
C1_Witness ==
    /\ req[1].created.ID = 2
    /\ req[2].created.ID = 1

\* C2: in every reachable state the stored events are in insertion order
\* with strictly increasing id and non-decreasing received_at.
C2_StoreOrdered ==
    \A i, j \in 1..Len(events) :
        i < j => /\ events[i].ID < events[j].ID
                 /\ events[i].ReceivedAt <= events[j].ReceivedAt

\* The identifier half of C2, and what the code has of the other half:
\* every stored received_at is a reading of the store's clock.
C2_IdsOrdered ==
    /\ \A i, j \in 1..Len(events) : i < j => events[i].ID < events[j].ID
    /\ \A i \in 1..Len(events) : events[i].ReceivedAt \in Nat

\* C3: List(n) returns min(n, storedCount) events for n > 0 and storedCount
\* events for n <= 0, whatever the store holds.
C3_ListBound ==
    [][\A n \in Limits :
          DirectList(n) =>
              Len(listOut') = IF n > 0 THEN Min(n, Len(events)) ELSE Len(events)]_vars

\* List was called with a limit below, and with a limit above, what is stored.
C3_Witness ==
    /\ Len(events) = 3
    /\ listLimit = 2
    /\ Len(listOut) = 2

\* C4: List returns the last k inserted events, newest first, strictly
\* decreasing by id; List(50) on the store of 60 events returns 50 events,
\* the first with id 60 and the last with id 11.
C4_ListNewestFirst ==
    [][\A n \in Limits :
          DirectList(n) =>
              LET out == listOut'
                  k == Len(out)
              IN  /\ \A i \in 1..k : out[i] = events[Len(events) - i + 1]
                  /\ \A i, j \in 1..k : i < j => out[i].ID > out[j].ID
                  /\ (n = PageSize /\ Len(events) = 60) =>
                        k = 50 /\ out[1].ID = 60 /\ out[k].ID = 11]_vars

C4_Witness ==
    /\ Len(events) = 60
    /\ listLimit = PageSize
    /\ Len(listOut) = 50
    /\ listOut[1].ID = 60
    /\ listOut[50].ID = 11
\* A body the POST handler must refuse: not JSON, or type missing or empty.
BodyRejected(b) == ~b.ok \/ "type" \notin b.has \/ b.type = ""

\* The POST requests whose handler has returned without a fault.
PostReturned ==
    {r \in Reqs : /\ req[r].kind = PostEvents
                  /\ req[r].pc \in {"inc", "observe", "log", "logged", "done"}
                  /\ req[r].sent # 500}

\* The POST requests with an acceptable body that have executed s.seq++.
PostCounted ==
    {r \in Reqs : /\ req[r].kind = PostEvents
                  /\ ~BodyRejected(req[r].body)
                  /\ (req[r].pc = "add2" \/ r \in Returned)}

\* C5: a rejected POST is answered 400 and never reaches the store: it gets
\* no event and no identifier, so the counter and the stored events count
\* the accepted POSTs only, and the first accepted POST gets id 1 however
\* many were rejected before it.
C5_RejectedLeavesStore ==
    /\ \A r \in PostReturned :
           BodyRejected(req[r].body) =>
               /\ req[r].sent = StatusBadRequest
               /\ req[r].created = ZeroEvent
    /\ \A r \in Returned : req[r].kind = PostEvents /\ ~BodyRejected(req[r].body)
    /\ Len(events) = Cardinality(Returned)
    /\ exitCode = -1 => seq = Cardinality(PostCounted)

\* Scenario B: a POST without type answered 400, then the first accepted
\* POST answered with id 1.
C5_Witness ==
    /\ req[1].pc = "done" /\ req[1].kind = PostEvents
    /\ "type" \notin req[1].body.has /\ req[1].body.ok
    /\ req[1].sent = StatusBadRequest
    /\ req[2].pc = "done" /\ req[2].sent = StatusCreated
    /\ req[2].resp[1].id = 1

\* C6: the event an accepted POST stores and returns has the store's id (its
\* position in the sequence) and the store's clock reading, not the values
\* of the request body; type and payload are the client's; the 201 response
\* carries the stored record.
C6_StoreAssignsIdentity ==
    \A r \in Returned :
        LET c == req[r].created IN
        /\ c.ID \in 1..Len(events)
        /\ events[c.ID] = c
        /\ c.ReceivedAt \in Nat
        /\ c.Type = req[r].body.type
        /\ c.Payload = req[r].body.payload
        /\ req[r].sent = StatusCreated => req[r].resp = <<Encode(events[c.ID])>>

\* A body carrying its own id and received_at was accepted and answered.
C6_Witness ==
    \E r \in Reqs :
        /\ req[r].pc = "done" /\ req[r].sent = StatusCreated
        /\ "id" \in req[r].body.has /\ req[r].body.id # req[r].resp[1].id
        /\ "received_at" \in req[r].body.has
        /\ req[r].body.received_at # req[r].resp[1].received_at
        /\ req[r].resp[1].type = "click"

\* The counter's sum over the status labels of one (route, method).
RECURSIVE SumOver(_, _)
SumOver(f, S) ==
    IF S = {} THEN 0
    ELSE LET x == CHOOSE y \in S : TRUE IN f[x] + SumOver(f, S \ {x})
CounterSum(k) == SumOver(reqsTotal[k], StatusTexts)

\* The requests to k that have been handled: their response is complete.
Handled(k) == {r \in Reqs : req[r].kind = k /\ req[r].pc = "done"}

\* C7: once every request sent has been handled, whatever its outcome, the
\* counter's sum over the status labels of each (route, method) is the
\* number of requests handled for it.
C7_MetricsConservation ==
    (\A r \in Reqs : req[r].pc \in {"idle", "done"}) =>
        \A k \in Instrumented : CounterSum(k) = Cardinality(Handled(k))

\* C7 restricted to the requests whose handler returned.
C7_ConservationWithoutFault ==
    (\A r \in Reqs : req[r].pc \in {"idle", "done"}) =>
        \A k \in Instrumented :
            CounterSum(k) = Cardinality({r \in Handled(k) : req[r].sent # 500})

\* C8: a request in flight when a termination signal arrives is cut off only
\* after the grace period has expired; one that finishes within the grace
\* period is answered, and the event its POST appended is in the store.
C8_InFlightCompletes ==
    /\ \A r \in atSignal : req[r].pc = "killed" => ctxDone
    /\ \A r \in atSignal :
           (req[r].pc = "done" /\ req[r].sent = StatusCreated) =>
               \E i \in 1..Len(events) : <<Encode(events[i])>> = req[r].resp

\* C8 on the runs in which the process ends by main returning: main's exit
\* cuts off no request before the deadline; a request cut off before the
\* deadline was cut off by a signal that came before signal.Notify or by
\* panic(err).
C8_CompletesUnlessPanic ==
    /\ \A r \in Reqs : (req[r].pc = "killed" /\ exitCode = 0) => ctxDone
    /\ \A r \in Reqs : (req[r].pc = "killed" /\ ~ctxDone) =>
           \/ srvPc = "failed" /\ exitCode = 2
           \/ mainPc = "killed" /\ exitCode \in {128 + sig : sig \in Signals}
    /\ \A r \in atSignal :
           (req[r].pc = "done" /\ req[r].sent = StatusCreated) =>
               \E i \in 1..Len(events) : <<Encode(events[i])>> = req[r].resp

PhaseRank(p) ==
    CASE p = "Starting" -> 0
      [] p = "Running" -> 1
      [] p = "ShuttingDown" -> 2
      [] OTHER -> 3

\* A connection is accepted, or a request is read from one, in this step.
Accepted(r) == req[r].pc = "idle" /\ req'[r].pc = "conn"
RequestRead(r) == req[r].pc = "conn" /\ req'[r].pc = "handler"

\* C9: the lifecycle never moves backwards through Starting, Running,
\* ShuttingDown, Stopped; ShuttingDown is entered only by main receiving a
\* signal from stop; from then on no connection is accepted and no request
\* is taken into service.
C9_LifecycleOrder ==
    [][/\ PhaseRank(Phase') >= PhaseRank(Phase)
       /\ (Phase # "ShuttingDown" /\ Phase' = "ShuttingDown") => stop = 1 /\ stop' = 0
       /\ Phase \in {"ShuttingDown", "Stopped"} =>
              \A r \in Reqs : ~Accepted(r) /\ ~RequestRead(r)]_vars

\* What the code has of C9: the lifecycle never moves backwards, whether
\* the process ends Stopped, aborted or killed; ShuttingDown is entered only
\* by main receiving a signal from stop; once Shutdown has closed the
\* listener no connection is accepted; nothing is accepted or read once the
\* process has ended; and a request read while Shutdown waits is one
\* Shutdown waits for.
C9_NoNewConnection ==
    [][/\ PhaseRank(Phase') >= PhaseRank(Phase)
       /\ (Phase # "ShuttingDown" /\ Phase' = "ShuttingDown") => stop = 1 /\ stop' = 0
       /\ (mainPc = "shutdown" \/ Phase \in {"Stopped", "Aborted", "Killed"}) =>
              \A r \in Reqs : ~Accepted(r)
       /\ Phase \in {"Stopped", "Aborted", "Killed"} =>
              \A r \in Reqs : ~RequestRead(r)
       /\ \A r \in Reqs : (mainPc = "shutdown" /\ RequestRead(r)) =>
              r \in Active /\ ShutdownResults \subseteq {"deadline"}]_vars

\* The listener has been bound: the service has started. A bind failure
\* is the startup failure of section 4.4, for which the process aborts.
Started == srvPc \in {"listening", "accepterr", "closed"}

\* A termination signal has been delivered to the process.
SignalReceived == stop = 1 \/ mainPc \in {"ctx", "closing", "shutdown", "exited", "killed"}

\* C10: once a termination signal has been received by a service that has
\* started, the process ends only by reaching Stopped, where no connection
\* is being served any more and the exit code is 0 whether Shutdown
\* returned nil or the deadline error; and it does reach Stopped, even when
\* a request never finishes.
C10_ShutdownBounded ==
    /\ [][(exitCode = -1 /\ exitCode' # -1 /\ SignalReceived' /\ Started) =>
              /\ Phase' = "Stopped"
              /\ Active' = {}
              /\ exitCode' = 0
              /\ shutdownErr' \in {"nil", "deadline"}]_vars
    /\ (SignalReceived /\ Started) ~> (Phase = "Stopped")

\* What the code has of C10: once main has the signal the process ends,
\* even when a request never finishes; main's return is the only end with
\* exit code 0, and then no connection is being served any more, whether
\* Shutdown returned nil or the deadline error.
C10_ShutdownEnds ==
    /\ (Phase = "ShuttingDown") ~> (Phase \in {"Stopped", "Aborted"})
    /\ [][/\ (srvPc # "accepterr" /\ srvPc' = "accepterr") => ~ShuttingDown
          /\ Phase' = "Aborted" => srvPc \in {"binderr", "accepterr", "failed"}
          /\ srvPc = "closed" => srvPc' = "closed"]_vars
    /\ [](Phase = "Stopped" =>
            /\ Active = {}
            /\ exitCode = 0
            /\ shutdownErr \in {"nil", "deadline"})

\* Every request sent so far has been answered: none is in flight.
Quiescent == \A r \in Reqs : req[r].pc \in {"idle", "conn", "dropped", "done"}

\* The requests whose handler panicked: answered, but by no handler's status.
Faulted == {r \in Reqs : req[r].pc = "done"
                /\ req[r].sent \notin {StatusOK, StatusCreated, StatusBadRequest, 404}}

\* C11: a panic in a handler is contained. The faulted request is answered
\* with a 5xx and holds no lock; while the lock is free the counter is the
\* number of stored events; and once every request has been answered the
\* counter and the histogram of each (route, method) agree with each other
\* and with the number of requests handled, the faulted ones included.
C11_FaultContained ==
    /\ \A r \in Faulted : req[r].sent \in 500..599 /\ mu # r
    /\ mu = 0 => seq = Len(events)
    /\ Quiescent =>
           \A k \in Instrumented :
               /\ CounterSum(k) = reqDuration[k]
               /\ reqDuration[k] = Cardinality(Handled(k))

\* C11 without the metrics: the fault step answers 500, touches neither the
\* store, the lock, the metrics, the process nor any other request, and the
\* requests that did not fault are counted as if no fault had occurred.
C11_ContainedApartFromMetrics ==
    /\ \A r \in Faulted : req[r].sent = 500 /\ mu # r
    /\ mu = 0 => seq = Len(events)
    /\ Quiescent =>
           \A k \in Instrumented :
               /\ CounterSum(k) = reqDuration[k]
               /\ reqDuration[k] = Cardinality(Handled(k) \ Faulted)

\* C12: a request whose 30-second deadline passed while it was being
\* served is answered with a 5xx.
C12_TimeoutIsServerError ==
    \A r \in Reqs :
        (req[r].late /\ req[r].pc = "done") => req[r].sent \in 500..599

\* The part of C12 the code keeps: the deadline passing changes nothing but
\* the request's own context; the store, the metrics, the process and the
\* other requests are as before.
C12_TimeoutLeavesOthers ==
    [][\A r \in Reqs : CtxTimeout(r) =>
           /\ UNCHANGED <<storeVars, metricVars, lifeVars>>
           /\ \A o \in Reqs \ {r} : req'[o] = req[o]]_vars

\* The requests that are inside Store.Add or Store.List, or waiting to be.
AtStore == {r \in Reqs : req[r].pc \in {"lock", "add1", "add2", "list"}}

\* C13: a GET /healthz being served never waits for the store lock, holds
\* it or calls the store: its handler can run whatever the lock's state and
\* whatever the other requests are doing; when it runs it answers 200 with
\* the body "ok" and leaves the sequence counter and the events as they are.
C13_HealthzIndependent ==
    /\ [](\A r \in Reqs : req[r].kind = GetHealthz =>
             /\ r \notin AtStore /\ mu # r
             /\ req[r].pc = "handler" => ENABLED Healthz(r))
    /\ [][\A r \in Reqs : Healthz(r) =>
             /\ req'[r].sent = StatusOK /\ req'[r].resp = <<"ok">>
             /\ UNCHANGED <<seq, events, mu>>]_vars

\* A health check has been answered 200 while a POST is inside Add, past
\* the counter's increment, and holds the lock.
C13_Witness ==
    \E r, p \in Reqs :
        /\ req[r].kind = GetHealthz
        /\ req[r].pc \in {"inc", "observe", "log", "logged", "done"}
        /\ req[r].sent = StatusOK /\ req[r].resp = <<"ok">>
        /\ req[p].pc = "add2" /\ mu = p /\ p < r

\* C14: a List call leaves the sequence counter, the stored events and the
\* lock as they were, and a call with the limit of the previous call, made
\* with no Add since that call, returns what the previous call returned.
C14_ListPureRead ==
    [][\A n \in Limits : DirectList(n) =>
           /\ seq' = seq /\ events' = events /\ mu' = mu
           /\ (listSeq = seq /\ listLimit = n) => listOut' = listOut]_vars

\* A List call has returned the newest two of at least three events, and
\* the store still holds them all.
C14_Witness ==
    /\ listSeq = seq /\ listLimit = 2
    /\ Len(events) >= 3 /\ seq = Len(events)
    /\ listOut = <<events[Len(events)], events[Len(events) - 1]>>

\* The GET /events requests whose List call has returned.
Listed == {r \in Reqs : req[r].kind = GetEvents
               /\ req[r].pc \in {"respond", "inc", "observe", "log", "logged", "done"}
               /\ req[r].sent # 500}

\* C15: whenever a List call holds the lock and is about to read, no Add is
\* half applied: the sequence counter is the number of stored events and
\* every stored event has its identifier and its timestamp; and every list
\* a List call returned has only events with id >= 1 and a store timestamp,
\* with consecutive ids from the newest down.
C15_ListSeesWholeAdds ==
    /\ \A r \in Reqs : req[r].pc = "list" =>
           /\ mu = r
           /\ seq = Len(events)
           /\ \A i \in 1..Len(events) :
                  events[i].ID >= 1 /\ events[i].ReceivedAt >= 0
           /\ \A p \in Reqs : req[p].pc \notin {"add1", "add2"}
    /\ \A r \in Listed :
           \A i \in 1..Len(req[r].out) :
               /\ req[r].out[i].ID >= 1
               /\ req[r].out[i].ReceivedAt >= 0
               /\ i > 1 => req[r].out[i].ID = req[r].out[i - 1].ID - 1

\* A List call is in the critical section while the Add call of a POST
\* that arrived before it waits for the lock.
C15_Witness ==
    \E r, p \in Reqs :
        /\ req[r].pc = "list" /\ mu = r
        /\ req[p].pc = "lock" /\ p < r

\* The status a request's handler set first, 200 when it set none.
FirstStatus(r) == IF req[r].first = 0 THEN StatusOK ELSE req[r].first

\* The requests for which instrument has incremented the counter.
Counted == {r \in Reqs : req[r].pc \in {"observe", "log", "logged", "done"}
                /\ req[r].sent < 500}

\* C16: the label under which instrument counts a request is the status
\* text of the first status its handler set, OK when it set none: each
\* counter holds the number of counted requests of its route and method
\* whose first status has that text.
C16_LabelIsFirstStatus ==
    \A k \in Instrumented, t \in StatusTexts :
        reqsTotal[k][t] =
            Cardinality({r \in Counted :
                            req[r].kind = k /\ StatusText(FirstStatus(r)) = t})

\* What the code does: the label is the text of the last status the
\* handler set, whatever was sent to the client.
C16_LabelIsLastStatus ==
    \A k \in Instrumented, t \in StatusTexts :
        reqsTotal[k][t] =
            Cardinality({r \in Counted :
                            req[r].kind = k /\ StatusText(req[r].code) = t})

\* The handlers of the service set a status at most once, so for a request
\* they served the last status set is the first.
C16_ServiceHandlersSetOnce ==
    \A r \in Reqs : (req[r].kind \in Instrumented
                       /\ req[r].pc \in {"inc", "observe", "log", "logged"}) =>
        /\ req[r].code = FirstStatus(r)
        /\ req[r].sent = FirstStatus(r)

\* The requests to k for which logMiddleware has written its record, if it
\* writes one for every request whose chain it has seen through.
PastLog(k) == {r \in Reqs : req[r].kind = k /\ req[r].pc \in {"logged", "done"}}

\* C17: every request that has been answered, whatever its outcome, a
\* recovered panic included, has left exactly one access-log record, written
\* after its handler returned: while the process lives, the records of each
\* method and path number the requests past the log statement or answered.
C17_OneLogRecordEach ==
    exitCode = -1 =>
        \A k \in Routed : accessLog[k] = Cardinality(PastLog(k))

\* C17 for the requests whose handler returned: one record each, written
\* after the handler has returned.
C17_OneLogRecordUnlessFaulted ==
    exitCode = -1 =>
        \A k \in Routed : accessLog[k] = Cardinality(PastLog(k) \ Faulted)

\* s is a prefix of t.
IsPrefix(s, t) == Len(s) <= Len(t) /\ SubSeq(t, 1, Len(s)) = s

\* C18: every step leaves the stored events as a prefix of the stored
\* events after it, so that no event is removed, moved or changed in any
\* field, and never decreases the sequence counter.
C18_AppendOnly ==
    [][IsPrefix(events, events') /\ seq' >= seq]_vars

\* An event is stored and the List call of a GET /events has returned it.
C18_Witness ==
    /\ Len(events) >= 1
    /\ \E r \in Reqs : req[r].kind = GetEvents /\ req[r].pc = "respond"
                          /\ Len(req[r].out) = Len(events)

\* The requests inside the critical section of Add or List.
InCritical == {r \in Reqs : req[r].pc \in {"add1", "add2", "list"}}

\* A request has called Add or List, or is about to call List, and the
\* call has not returned.
StoreCallPending(r) ==
    \/ req[r].pc \in {"lock", "add1", "add2", "list"}
    \/ req[r].pc = "handler" /\ req[r].kind = GetEvents

\* C19: at most one Add or List call is inside the critical section, the
\* lock is held exactly by the call inside it, so that a call that has
\* returned holds no lock, and with every goroutine scheduled fairly every
\* pending Add or List call returns.
C19_NoStuckCaller ==
    /\ [](/\ Cardinality(InCritical) <= 1
          /\ \A r \in Reqs : mu = r <=> r \in InCritical
          /\ mu \in Reqs \cup {0})
    /\ \A r \in Reqs :
           StoreCallPending(r) ~>
               req[r].pc \in {"respond", "inc", "observe", "log", "logged", "done"}

\* An Add call holds the lock, past the counter's increment, while a List
\* call that arrived later waits for it.
C19_Witness ==
    \E p, r \in Reqs :
        /\ req[p].pc = "add2" /\ mu = p
        /\ req[r].pc = "handler" /\ req[r].kind = GetEvents

\* The requests to k between instrument's two recording steps: counted,
\* not yet observed.
BetweenRecordings(k) == {r \in Reqs : req[r].kind = k /\ req[r].pc = "observe"}

\* The requests to k whose handler has returned to instrument.
HandlerReturned(k) ==
    {r \in Reqs : req[r].kind = k
                     /\ req[r].pc \in {"inc", "observe", "log", "logged", "done"}
                     /\ req[r].sent < 500}

\* C20: for every instrumented route and method the histogram's count never
\* exceeds the counter's sum over the status labels; while the process
\* lives the difference is the number of requests between the two recording
\* steps, so the two are equal when there is none; and each request whose
\* handler returned has been counted once it is past the first step and
\* observed once it is past the second.
C20_CounterAndHistogramInStep ==
    \A k \in Instrumented :
        /\ reqDuration[k] <= CounterSum(k)
        /\ exitCode = -1 =>
               /\ CounterSum(k) - reqDuration[k] = Cardinality(BetweenRecordings(k))
               /\ CounterSum(k) =
                      Cardinality({r \in HandlerReturned(k) : req[r].pc # "inc"})
               /\ reqDuration[k] =
                      Cardinality({r \in HandlerReturned(k) :
                                      req[r].pc \notin {"inc", "observe"}})

\* Two requests to POST /events, one refused: one has been counted and
\* observed, the other is between the two recording steps.
C20_Witness ==
    \E r1, r2 \in Reqs :
        /\ req[r1].kind = PostEvents /\ req[r2].kind = PostEvents
        /\ req[r1].pc \in {"log", "logged", "done"} /\ req[r1].sent < 500
        /\ req[r2].pc = "observe"
        /\ req[r1].code # req[r2].code
        /\ CounterSum(PostEvents) = 2 /\ reqDuration[PostEvents] = 1
====
